---- MODULE Spec2Model ----
(***************************************************************************)
(* Model of the defi-derivatives-protocol program: the fixed-point pricing *)
(* library (math.rs) and the option lifecycle instructions (lib.rs).       *)
(*                                                                         *)
(* u128 values of math.rs are far beyond the range of TLC's integers, so a *)
(* u128 is carried as its 16 little-endian bytes; the operators below      *)
(* implement exact arithmetic on such byte sequences ("limbs"), and the    *)
(* u128 operators add Rust's overflow behaviour on top.                    *)
(***************************************************************************)
EXTENDS Integers, Sequences, FiniteSets, Bags, TLC

\* ------------------------------------------------------------------------
\* Arithmetic on little-endian byte sequences.  Carries and borrows are
\* computed by look-ahead and sums by BagCardinality, so that only the long
\* division recurses (once per quotient byte).  A value that is used more
\* than once is handed on as an operator argument, which is evaluated once.
\* ------------------------------------------------------------------------
Byte == 256

\* the bytes of a u128
Width == 16

\* the sequence f[1], ..., f[n], evaluated
Limbs(f, n) == SubSeq(f, 1, n)

\* limb i of a, 0 beyond its length
Limb(a, i) == IF i \in DOMAIN a THEN a[i] ELSE 0

\* the sum of f[i] over DOMAIN f, for f[i] >= 0
Sum(f) == BagCardinality([i \in {j \in DOMAIN f : f[j] > 0} |-> f[i]])

\* the u128 of a natural number below 2^31
U128(n) == Limbs([i \in 1..Width |-> IF i <= 4 THEN (n \div Byte^(i - 1)) % Byte ELSE 0], Width)

Zero == U128(0)

\* the n limbs of the number with the column values s[i] <= 2 * Byte - 2:
\* column i takes a carry when a column below it overflows and every column
\* in between is full
Ripple(s, n) ==
    Limbs([i \in 1..n |->
              (s[i] + (IF \E j \in 1..(i - 1) :
                            s[j] >= Byte /\ \A k \in (j + 1)..(i - 1) : s[k] = Byte - 1
                       THEN 1 ELSE 0)) % Byte], n)

\* the low n limbs of a + b
AddLimbs(a, b, n) == Ripple(Limbs([i \in 1..n |-> Limb(a, i) + Limb(b, i)], n), n)

\* a < b on their low n limbs
Less(a, b, n) == \E j \in 1..n : a[j] < b[j] /\ \A k \in (j + 1)..n : a[k] = b[k]

\* the low n limbs of a - b: a - b when a >= b, and a - b + Byte^n otherwise
SubLimbs(a, b, n) ==
    Limbs([i \in 1..n |->
              (a[i] - b[i] - (IF Less(a, b, i - 1) THEN 1 ELSE 0) + Byte) % Byte], n)

\* the low n limbs of the number with the column sums col[k] < Byte^3
MulCols(col, n) ==
    AddLimbs(AddLimbs([k \in 1..n |-> col[k] % Byte],
                      [k \in 1..n |-> (Limb(col, k - 1) \div Byte) % Byte], n),
             [k \in 1..n |-> Limb(col, k - 2) \div (Byte * Byte)], n)

\* the low n limbs of a * b (schoolbook product)
Mul(a, b, n) ==
    MulCols(Limbs([k \in 1..n |-> Sum([i \in DOMAIN a |-> a[i] * Limb(b, k + 1 - i)])], n), n)

\* the low n limbs of a * m, for one limb m
MulByte(a, m, n) ==
    Ripple(Limbs([i \in 1..n |->
                     ((Limb(a, i) * m) % Byte) + ((Limb(a, i - 1) * m) \div Byte)], n), n)

RECURSIVE QuotRem(_, _, _, _)
\* the largest q' <= q with q' * d <= r, and r - q' * d, given p = q * d
QuotRem(r, d, q, p) ==
    IF Less(r, p, Width + 1) THEN QuotRem(r, d, q - 1, SubLimbs(p, d, Width + 1))
    ELSE <<q, SubLimbs(r, p, Width + 1)>>

\* the quotient limb estimated from the two top limbs of r (at most 2 too
\* big, as the top limb d[n] of d is at least Byte \div 2)
QuotEstimate(r, d, n) ==
    IF (r[n + 1] * Byte + r[n]) \div d[n] < Byte
    THEN (r[n + 1] * Byte + r[n]) \div d[n]
    ELSE Byte - 1

\* the quotient limb of r by d and the remainder, from the estimate qhat
DivFrom(r, d, qhat) ==
    IF qhat = 0 THEN <<0, r>>
    ELSE QuotRem(r, d, qhat, MulByte(d, qhat, Width + 1))

DivStep(r, d, n) == DivFrom(r, d, QuotEstimate(r, d, n))

RECURSIVE DivLoop(_, _, _, _, _, _)
\* the long division goes on after a step has given qr = <<quotient limb, remainder>>
DivNext(a, d, n, i, q, qr) == DivLoop(a, d, n, i - 1, <<qr[1]>> \o q, qr[2])

\* long division by d, most significant limb first: the limbs a[i+1..] are
\* divided already, with quotient limbs q and remainder r  (the test on the
\* lengths has q and r evaluated at every step)
DivLoop(a, d, n, i, q, r) ==
    IF Len(q) + Len(r) >= 0 /\ i = 0 THEN q
    ELSE DivNext(a, d, n, i, q, DivStep(<<a[i]>> \o SubSeq(r, 1, Width), d, n))

\* a \div b for b # 0, where b[n] is the top limb of b: both are scaled by f
\* so that the divisor's top limb is at least Byte \div 2, which leaves the
\* quotient unchanged
DivScaled(a, b, n, f) ==
    SubSeq(DivLoop(MulByte(a, f, Width + 1), MulByte(b, f, Width + 1), n,
                   Width + 1, <<>>, Zero), 1, Width)

Top(b) == CHOOSE n \in 1..Width : b[n] # 0 /\ \A k \in (n + 1)..Width : b[k] = 0

DivTop(a, b, n) == DivScaled(a, b, n, Byte \div (b[n] + 1))

Div(a, b) == DivTop(a, b, Top(b))

\* ------------------------------------------------------------------------
\* Rust unsigned arithmetic on u128.  An operation that overflows panics in
\* a build with overflow checks and wraps modulo 2^128 in a build without
\* them; a division by zero panics in every build.  A panic is the value
\* Trap, and it propagates through every later operation.
\* ------------------------------------------------------------------------
Trap == <<-1>>

\* the u128 of the limbs x: its low 16 bytes, unless the build panics on
\* the bytes above them
u128_wrap(chk, x) ==
    IF chk /\ \E i \in (Width + 1)..Len(x) : x[i] # 0 THEN Trap ELSE SubSeq(x, 1, Width)

u128_add(chk, a, b) ==
    IF a = Trap \/ b = Trap THEN Trap
    ELSE u128_wrap(chk, AddLimbs(a, b, Width + 1))

u128_sub(chk, a, b) ==
    IF a = Trap \/ b = Trap THEN Trap
    ELSE IF chk /\ Less(a, b, Width) THEN Trap
    ELSE SubLimbs(a, b, Width)

u128_mul(chk, a, b) ==
    IF a = Trap \/ b = Trap THEN Trap
    ELSE u128_wrap(chk, Mul(a, b, 2 * Width))

u128_div(a, b) ==
    IF a = Trap \/ b = Trap THEN Trap
    ELSE IF b = Zero THEN Trap
    ELSE Div(a, b)

\* `x as u64`: the low 8 bytes, in every build
as_u64(a) ==
    IF a = Trap THEN Trap
    ELSE Limbs([i \in 1..Width |-> IF i <= 8 THEN a[i] ELSE 0], Width)

\* ------------------------------------------------------------------------
\* math.rs
\* ------------------------------------------------------------------------
SCALE == U128(1000000)

SecondsPerYear == 31536000

SQRT_2_PI == U128(2506628)

ln_fp(chk, x_fp) ==
    LET delta == u128_sub(chk, x_fp, SCALE)
    IN  u128_div(u128_mul(chk, delta, SCALE), SCALE)

exp_fp(chk, x_fp) ==
    LET x1 == x_fp
        x2 == u128_div(u128_mul(chk, x_fp, x_fp), SCALE)
        x3 == u128_div(u128_mul(chk, x2, x_fp), SCALE)
        term1 == SCALE
        term2 == x1
        term3 == u128_div(x2, U128(2))
        term4 == u128_div(x3, U128(6))
    IN  u128_add(chk, u128_add(chk, u128_add(chk, term1, term2), term3), term4)

\* sqrt_fp with y started at x_fp / 2
sqrt_start_half(chk, x_fp) == u128_div(x_fp, U128(2))

\* the first value of y (line 90)
sqrt_start(chk, x_fp) == u128_div(u128_add(chk, x_fp, SCALE), U128(2))

\* the value the body of the loop gives y (line 93)
sqrt_iterate(chk, x_fp, y) ==
    u128_div(u128_add(chk, u128_div(u128_mul(chk, x_fp, SCALE), y), y), U128(2))

RECURSIVE sqrt_loop(_, _, _, _)
\* the while loop of sqrt_fp, from the loop variables z and y
sqrt_loop(chk, x_fp, z, y) ==
    IF y = Trap THEN Trap
    ELSE IF Less(y, z, Width)
    THEN sqrt_loop(chk, x_fp, y, sqrt_iterate(chk, x_fp, y))
    ELSE z

sqrt_fp(chk, x_fp) ==
    IF x_fp = Trap THEN Trap
    ELSE IF x_fp = Zero THEN Zero
    ELSE sqrt_loop(chk, x_fp, x_fp, sqrt_start(chk, x_fp))

\* standard_normal_cdf without the term SCALE / 2
standard_normal_cdf_no_half(chk, d_fp) ==
    LET nd_fp == u128_div(u128_mul(chk, d_fp, SCALE), SQRT_2_PI)
    IN  IF nd_fp = Trap THEN Trap
        ELSE IF Less(SCALE, nd_fp, Width) THEN SCALE
        ELSE IF Less(nd_fp, Zero, Width) THEN Zero
        ELSE nd_fp

\* standard_normal_cdf without the clamp to SCALE
standard_normal_cdf_unclamped(chk, d_fp) ==
    LET nd_lin == u128_div(u128_mul(chk, d_fp, SCALE), SQRT_2_PI)
        nd_fp  == u128_add(chk, u128_div(SCALE, U128(2)), nd_lin)
    IN  IF nd_fp = Trap THEN Trap
        ELSE IF Less(nd_fp, Zero, Width) THEN Zero
        ELSE nd_fp

standard_normal_cdf(chk, d_fp) ==
    LET nd_lin == u128_div(u128_mul(chk, d_fp, SCALE), SQRT_2_PI)
        nd_fp  == u128_add(chk, u128_div(SCALE, U128(2)), nd_lin)
    IN  IF nd_fp = Trap THEN Trap
        ELSE IF Less(SCALE, nd_fp, Width) THEN SCALE
        ELSE IF Less(nd_fp, Zero, Width) THEN Zero
        ELSE nd_fp

\* black_scholes_approx returning c_fp without the division by SCALE
black_scholes_approx_unscaled(chk, s, k, t, r, sigma) ==
    LET s_fp == u128_mul(chk, s, SCALE)
        k_fp == u128_mul(chk, k, SCALE)
        t_fp == u128_div(u128_mul(chk, t, SCALE), U128(SecondsPerYear))
        r_fp == r
        sigma_fp == sigma
        ln_s_div_k == ln_fp(chk, u128_div(u128_mul(chk, s_fp, SCALE), k_fp))
        sigma_squared == u128_div(u128_mul(chk, sigma_fp, sigma_fp), SCALE)
        half_sigma_squared == u128_div(sigma_squared, U128(2))
        r_plus_half_sigma_squared == u128_add(chk, r_fp, half_sigma_squared)
        numerator == u128_add(chk, ln_s_div_k,
                        u128_div(u128_mul(chk, r_plus_half_sigma_squared, t_fp), SCALE))
        sigma_sqrt_t == u128_div(u128_mul(chk, sigma_fp, sqrt_fp(chk, t_fp)), SCALE)
        d1 == u128_div(u128_mul(chk, numerator, SCALE), sigma_sqrt_t)
        d2 == u128_sub(chk, d1, sigma_sqrt_t)
        nd1 == standard_normal_cdf(chk, d1)
        nd2 == standard_normal_cdf(chk, d2)
        s_nd1 == u128_div(u128_mul(chk, s_fp, nd1), SCALE)
        r_t == u128_div(u128_mul(chk, r_fp, t_fp), SCALE)
        e_minus_rt == exp_fp(chk, u128_sub(chk, SCALE, r_t))
        k_e_minus_rt == u128_div(u128_mul(chk, k_fp, e_minus_rt), SCALE)
        k_e_minus_rt_nd2 == u128_div(u128_mul(chk, k_e_minus_rt, nd2), SCALE)
        c_fp == IF s_nd1 = Trap \/ k_e_minus_rt_nd2 = Trap THEN Trap
                ELSE IF ~Less(s_nd1, k_e_minus_rt_nd2, Width)
                     THEN u128_sub(chk, s_nd1, k_e_minus_rt_nd2)
                     ELSE Zero
    IN  IF numerator = Trap \/ sigma_sqrt_t = Trap THEN Trap
        ELSE IF sigma_sqrt_t = Zero THEN Zero
        ELSE as_u64(c_fp)

\* s, k, t, r, sigma are u64 values (widened to u128, as the code does first);
\* the result is a u64 or Trap
black_scholes_approx(chk, s, k, t, r, sigma) ==
    LET s_fp == u128_mul(chk, s, SCALE)
        k_fp == u128_mul(chk, k, SCALE)
        t_fp == u128_div(u128_mul(chk, t, SCALE), U128(SecondsPerYear))
        r_fp == r
        sigma_fp == sigma
        ln_s_div_k == ln_fp(chk, u128_div(u128_mul(chk, s_fp, SCALE), k_fp))
        sigma_squared == u128_div(u128_mul(chk, sigma_fp, sigma_fp), SCALE)
        half_sigma_squared == u128_div(sigma_squared, U128(2))
        r_plus_half_sigma_squared == u128_add(chk, r_fp, half_sigma_squared)
        numerator == u128_add(chk, ln_s_div_k,
                        u128_div(u128_mul(chk, r_plus_half_sigma_squared, t_fp), SCALE))
        sigma_sqrt_t == u128_div(u128_mul(chk, sigma_fp, sqrt_fp(chk, t_fp)), SCALE)
        d1 == u128_div(u128_mul(chk, numerator, SCALE), sigma_sqrt_t)
        d2 == u128_sub(chk, d1, sigma_sqrt_t)
        nd1 == standard_normal_cdf(chk, d1)
        nd2 == standard_normal_cdf(chk, d2)
        s_nd1 == u128_div(u128_mul(chk, s_fp, nd1), SCALE)
        r_t == u128_div(u128_mul(chk, r_fp, t_fp), SCALE)
        e_minus_rt == exp_fp(chk, u128_sub(chk, SCALE, r_t))
        k_e_minus_rt == u128_div(u128_mul(chk, k_fp, e_minus_rt), SCALE)
        k_e_minus_rt_nd2 == u128_div(u128_mul(chk, k_e_minus_rt, nd2), SCALE)
        c_fp == IF s_nd1 = Trap \/ k_e_minus_rt_nd2 = Trap THEN Trap
                ELSE IF ~Less(s_nd1, k_e_minus_rt_nd2, Width)
                     THEN u128_sub(chk, s_nd1, k_e_minus_rt_nd2)
                     ELSE Zero
    IN  IF numerator = Trap \/ sigma_sqrt_t = Trap THEN Trap
        ELSE IF sigma_sqrt_t = Zero THEN Zero
        ELSE as_u64(u128_div(c_fp, SCALE))

\* the local variables of black_scholes_approx (lines 13-52) as the function
\* computes them, and whether it returned at the guard of line 30 (guard).
\* A local is Trap when the build panics at it or before it; after the guard
\* has returned, d1 and the locals computed from it are Trap as well (they
\* are not computed).
black_scholes_locals(chk, s, k, t, r, sigma) ==
    LET s_fp == u128_mul(chk, s, SCALE)
        k_fp == u128_mul(chk, k, SCALE)
        t_fp == u128_div(u128_mul(chk, t, SCALE), U128(SecondsPerYear))
        r_fp == r
        sigma_fp == sigma
        ln_s_div_k == ln_fp(chk, u128_div(u128_mul(chk, s_fp, SCALE), k_fp))
        sigma_squared == u128_div(u128_mul(chk, sigma_fp, sigma_fp), SCALE)
        half_sigma_squared == u128_div(sigma_squared, U128(2))
        r_plus_half_sigma_squared == u128_add(chk, r_fp, half_sigma_squared)
        numerator == u128_add(chk, ln_s_div_k,
                        u128_div(u128_mul(chk, r_plus_half_sigma_squared, t_fp), SCALE))
        sigma_sqrt_t == u128_div(u128_mul(chk, sigma_fp, sqrt_fp(chk, t_fp)), SCALE)
        d1 == u128_div(u128_mul(chk, numerator, SCALE), sigma_sqrt_t)
        d2 == u128_sub(chk, d1, sigma_sqrt_t)
        nd1 == standard_normal_cdf(chk, d1)
        nd2 == standard_normal_cdf(chk, d2)
        s_nd1 == u128_div(u128_mul(chk, s_fp, nd1), SCALE)
        r_t == u128_div(u128_mul(chk, r_fp, t_fp), SCALE)
        e_minus_rt == exp_fp(chk, u128_sub(chk, SCALE, r_t))
        k_e_minus_rt == u128_div(u128_mul(chk, k_fp, e_minus_rt), SCALE)
        k_e_minus_rt_nd2 == u128_div(u128_mul(chk, k_e_minus_rt, nd2), SCALE)
        c_fp == IF s_nd1 = Trap \/ k_e_minus_rt_nd2 = Trap THEN Trap
                ELSE IF ~Less(s_nd1, k_e_minus_rt_nd2, Width)
                     THEN u128_sub(chk, s_nd1, k_e_minus_rt_nd2)
                     ELSE Zero
    IN  [s_fp |-> s_fp, k_fp |-> k_fp, t_fp |-> t_fp,
         numerator |-> numerator, sigma_sqrt_t |-> sigma_sqrt_t,
         guard |-> numerator # Trap /\ sigma_sqrt_t = Zero,
         d1 |-> d1, d2 |-> d2, nd1 |-> nd1, nd2 |-> nd2, s_nd1 |-> s_nd1,
         r_t |-> r_t, e_minus_rt |-> e_minus_rt,
         k_e_minus_rt_nd2 |-> k_e_minus_rt_nd2, c_fp |-> c_fp,
         quotient |-> u128_div(c_fp, SCALE)]

\* ------------------------------------------------------------------------
\* lib.rs: accounts and the token program's transfer
\* ------------------------------------------------------------------------
\* public keys are tuples: a user's key, or the seeds of a derived address
Users == {<<"alice">>, <<"bob">>}

\* the users that issue options
Creators == {<<"alice">>}

Mints == {"UND", "STK"}

\* the program-derived address of a creator's option contract
\* (seeds "option_contract" and the creator's key)
find_program_address(creator) == <<"option_contract">> \o creator

bump_of(creator) == IF creator = <<"alice">> THEN 255 ELSE 254

\* a token account is identified by its authority and its mint
TokenAccount(owner, mint) == [owner |-> owner, mint |-> mint]

Wallets == {TokenAccount(u, m) : u \in Users, m \in Mints}

\* the account create_option initialises as option_underlying_account
Escrow(creator) == TokenAccount(find_program_address(creator), "UND")

AllTokenAccounts == Wallets \cup {Escrow(c) : c \in Creators}

\* spl_token transfer of amount from -> to signed by authority, on the
\* balances tok (a function over the existing token accounts): whether it
\* succeeds, and the balances after it
token_transfer(tok, from, to, authority, amount) ==
    IF /\ from \in DOMAIN tok
       /\ to \in DOMAIN tok
       /\ tok[from] >= amount
       /\ from.mint = to.mint
       /\ from.owner = authority
    THEN [ok  |-> TRUE,
          tok |-> [[tok EXCEPT ![from] = @ - amount] EXCEPT ![to] = @ + amount]]
    ELSE [ok |-> FALSE, tok |-> tok]

\* ------------------------------------------------------------------------
\* State
\* ------------------------------------------------------------------------
VARIABLES
    overflow_checks,  \* the build: TRUE when integer overflow panics
    clock,            \* Clock::get()?.unix_timestamp
    option_contract,  \* creator key -> OptionContract, for the existing records
    tokens,           \* token account -> balance, for the existing accounts
    exercises,        \* creator key -> number of exercise_option calls that returned Ok
    last,             \* the last instruction: its inputs and what it returned
    math_call,        \* the last call into math.rs (pricing specification)
    sqrt_frame        \* the sqrt_fp call in progress: its position and locals

vars == <<overflow_checks, clock, option_contract, tokens, exercises, last, math_call,
          sqrt_frame>>

\* bounds of the lifecycle model
MaxYears == 2

InitialBalance == 2

MaxAmount == 2

MaxStrike == 1

Prices == {1, 2}

Strikes == 1..MaxStrike

Amounts == 1..MaxAmount

Rates == {0, 50000}

Volatilities == {0, 200000}

Timestamps == {y * SecondsPerYear : y \in 0..MaxYears}

OptionParams ==
    [underlying_asset_mint : {"UND"},
     strike_price : Strikes,
     expiration : Timestamps,
     current_price : Prices,
     risk_free_rate : Rates,
     volatility : Volatilities,
     amount : Amounts]

NoCall == [fn |-> "none", args |-> <<>>, result |-> Zero, in_range |-> TRUE]

NoFrame == [pc |-> "idle", x_fp |-> Zero, z |-> Zero, y |-> Zero, result |-> Zero]

NoInstruction ==
    [op |-> "none", key |-> <<>>, signer |-> <<>>, result |-> "none",
     expiration |-> 0, handler |-> FALSE, transfers |-> 0, failed_leg |-> 0]

Init ==
    /\ overflow_checks \in BOOLEAN
    /\ clock = 0
    /\ option_contract = <<>>
    /\ tokens = [a \in Wallets |-> InitialBalance]
    /\ exercises = [c \in Creators |-> 0]
    /\ last = NoInstruction
    /\ math_call = NoCall
    /\ sqrt_frame = NoFrame

\* ------------------------------------------------------------------------
\* lib.rs: the instruction handlers.  A handler returns what it returned to
\* the runtime (result) and the account data as it left them; the runtime
\* keeps the account data only of an instruction that returned Ok.
\* ------------------------------------------------------------------------
\* black_scholes_approx on the u64 arguments create_option can pass within
\* the bounds, evaluated once
PriceTable ==
    [chk \in BOOLEAN, s \in Prices, k \in Strikes, t \in Timestamps,
     r \in Rates, sigma \in Volatilities |->
        black_scholes_approx(chk, U128(s), U128(k), U128(t), U128(r), U128(sigma))]
    @@ <<>>

\* lines 30-36 of create_option: the price of the option over the time to
\* the expiration
option_price_of(chk, params, current_timestamp) ==
    PriceTable[chk, params.current_price, params.strike_price,
               params.expiration - current_timestamp,
               params.risk_free_rate, params.volatility]

\* the record create_option writes (lines 38-54)
OptionContract(creator, params, option_price) ==
    [creator |-> creator,
     underlying_asset_mint |-> params.underlying_asset_mint,
     strike_price |-> params.strike_price,
     expiration |-> params.expiration,
     is_exercised |-> FALSE,
     option_price |-> option_price,
     amount |-> params.amount,
     bump |-> bump_of(creator)]

\* create_option from line 36, with the option priced: the record is
\* written, then the underlying is transferred into the escrow (xfer)
create_option_priced(tok, creator, params, option_price, xfer) ==
    IF option_price = Trap
    THEN [result |-> "Panic", tok |-> tok, record |-> <<>>,
          transfers |-> 0, failed_leg |-> 0]
    ELSE IF ~xfer.ok
    THEN [result |-> "TokenError", tok |-> tok,
          record |-> OptionContract(creator, params, option_price),
          transfers |-> 1, failed_leg |-> 1]
    ELSE [result |-> "Ok", tok |-> xfer.tok,
          record |-> OptionContract(creator, params, option_price),
          transfers |-> 1, failed_leg |-> 0]

\* create_option with the expiration test written `<` instead of `<=`
create_option_strict_expiration(chk, tok, current_timestamp, creator, creator_underlying_account, params) ==
    IF params.expiration < current_timestamp
    THEN [result |-> "InvalidExpiration", tok |-> tok, record |-> <<>>,
          transfers |-> 0, failed_leg |-> 0]
    ELSE create_option_priced(tok, creator, params,
            option_price_of(chk, params, current_timestamp),
            token_transfer(tok, creator_underlying_account, Escrow(creator),
                           creator, params.amount))

create_option(chk, tok, current_timestamp, creator, creator_underlying_account, params) ==
    IF params.expiration <= current_timestamp
    THEN [result |-> "InvalidExpiration", tok |-> tok, record |-> <<>>,
          transfers |-> 0, failed_leg |-> 0]
    ELSE create_option_priced(tok, creator, params,
            option_price_of(chk, params, current_timestamp),
            token_transfer(tok, creator_underlying_account, Escrow(creator),
                           creator, params.amount))

\* exercise_option that leaves is_exercised as it was
exercise_option_flag_not_set(tok, current_timestamp, contract, exerciser, creator_strike_account, exerciser_strike_account, option_underlying_account, exerciser_underlying_account) ==
    LET strike == token_transfer(tok, exerciser_strike_account, creator_strike_account,
                                 exerciser, contract.strike_price)
        underlying == token_transfer(strike.tok, option_underlying_account,
                                     exerciser_underlying_account,
                                     find_program_address(contract.creator),
                                     contract.amount)
    IN  IF contract.is_exercised
        THEN [result |-> "OptionAlreadyExercised", tok |-> tok, record |-> contract,
              transfers |-> 0, failed_leg |-> 0]
        ELSE IF current_timestamp > contract.expiration
        THEN [result |-> "OptionExpired", tok |-> tok, record |-> contract,
              transfers |-> 0, failed_leg |-> 0]
        ELSE IF ~strike.ok
        THEN [result |-> "TokenError", tok |-> tok, record |-> contract,
              transfers |-> 1, failed_leg |-> 1]
        ELSE IF ~underlying.ok
        THEN [result |-> "TokenError", tok |-> strike.tok, record |-> contract,
              transfers |-> 2, failed_leg |-> 2]
        ELSE [result |-> "Ok", tok |-> underlying.tok,
              record |-> contract,
              transfers |-> 2, failed_leg |-> 0]

\* exercise_option without the test of the expiration
exercise_option_no_expiry_check(tok, current_timestamp, contract, exerciser, creator_strike_account, exerciser_strike_account, option_underlying_account, exerciser_underlying_account) ==
    LET strike == token_transfer(tok, exerciser_strike_account, creator_strike_account,
                                 exerciser, contract.strike_price)
        underlying == token_transfer(strike.tok, option_underlying_account,
                                     exerciser_underlying_account,
                                     find_program_address(contract.creator),
                                     contract.amount)
    IN  IF contract.is_exercised
        THEN [result |-> "OptionAlreadyExercised", tok |-> tok, record |-> contract,
              transfers |-> 0, failed_leg |-> 0]
        ELSE IF FALSE
        THEN [result |-> "OptionExpired", tok |-> tok, record |-> contract,
              transfers |-> 0, failed_leg |-> 0]
        ELSE IF ~strike.ok
        THEN [result |-> "TokenError", tok |-> tok, record |-> contract,
              transfers |-> 1, failed_leg |-> 1]
        ELSE IF ~underlying.ok
        THEN [result |-> "TokenError", tok |-> strike.tok, record |-> contract,
              transfers |-> 2, failed_leg |-> 2]
        ELSE [result |-> "Ok", tok |-> underlying.tok,
              record |-> [contract EXCEPT !.is_exercised = TRUE],
              transfers |-> 2, failed_leg |-> 0]

\* exercise_option that ignores the result of the underlying transfer
exercise_option_error_ignored(tok, current_timestamp, contract, exerciser, creator_strike_account, exerciser_strike_account, option_underlying_account, exerciser_underlying_account) ==
    LET strike == token_transfer(tok, exerciser_strike_account, creator_strike_account,
                                 exerciser, contract.strike_price)
        underlying == token_transfer(strike.tok, option_underlying_account,
                                     exerciser_underlying_account,
                                     find_program_address(contract.creator),
                                     contract.amount)
    IN  IF contract.is_exercised
        THEN [result |-> "OptionAlreadyExercised", tok |-> tok, record |-> contract,
              transfers |-> 0, failed_leg |-> 0]
        ELSE IF current_timestamp > contract.expiration
        THEN [result |-> "OptionExpired", tok |-> tok, record |-> contract,
              transfers |-> 0, failed_leg |-> 0]
        ELSE IF ~strike.ok
        THEN [result |-> "TokenError", tok |-> tok, record |-> contract,
              transfers |-> 1, failed_leg |-> 1]
        ELSE [result |-> "Ok", tok |-> underlying.tok,
              record |-> [contract EXCEPT !.is_exercised = TRUE],
              transfers |-> 2, failed_leg |-> IF underlying.ok THEN 0 ELSE 2]

\* exercise_option with the expiration test written `>=` instead of `>`
exercise_option_exclusive_expiry(tok, current_timestamp, contract, exerciser, creator_strike_account, exerciser_strike_account, option_underlying_account, exerciser_underlying_account) ==
    LET strike == token_transfer(tok, exerciser_strike_account, creator_strike_account,
                                 exerciser, contract.strike_price)
        underlying == token_transfer(strike.tok, option_underlying_account,
                                     exerciser_underlying_account,
                                     find_program_address(contract.creator),
                                     contract.amount)
    IN  IF contract.is_exercised
        THEN [result |-> "OptionAlreadyExercised", tok |-> tok, record |-> contract,
              transfers |-> 0, failed_leg |-> 0]
        ELSE IF current_timestamp >= contract.expiration
        THEN [result |-> "OptionExpired", tok |-> tok, record |-> contract,
              transfers |-> 0, failed_leg |-> 0]
        ELSE IF ~strike.ok
        THEN [result |-> "TokenError", tok |-> tok, record |-> contract,
              transfers |-> 1, failed_leg |-> 1]
        ELSE IF ~underlying.ok
        THEN [result |-> "TokenError", tok |-> strike.tok, record |-> contract,
              transfers |-> 2, failed_leg |-> 2]
        ELSE [result |-> "Ok", tok |-> underlying.tok,
              record |-> [contract EXCEPT !.is_exercised = TRUE],
              transfers |-> 2, failed_leg |-> 0]

\* exercise_option with its two tests in the other order
exercise_option_expiry_first(tok, current_timestamp, contract, exerciser, creator_strike_account, exerciser_strike_account, option_underlying_account, exerciser_underlying_account) ==
    LET strike == token_transfer(tok, exerciser_strike_account, creator_strike_account,
                                 exerciser, contract.strike_price)
        underlying == token_transfer(strike.tok, option_underlying_account,
                                     exerciser_underlying_account,
                                     find_program_address(contract.creator),
                                     contract.amount)
    IN  IF current_timestamp > contract.expiration
        THEN [result |-> "OptionExpired", tok |-> tok, record |-> contract,
              transfers |-> 0, failed_leg |-> 0]
        ELSE IF contract.is_exercised
        THEN [result |-> "OptionAlreadyExercised", tok |-> tok, record |-> contract,
              transfers |-> 0, failed_leg |-> 0]
        ELSE IF ~strike.ok
        THEN [result |-> "TokenError", tok |-> tok, record |-> contract,
              transfers |-> 1, failed_leg |-> 1]
        ELSE IF ~underlying.ok
        THEN [result |-> "TokenError", tok |-> strike.tok, record |-> contract,
              transfers |-> 2, failed_leg |-> 2]
        ELSE [result |-> "Ok", tok |-> underlying.tok,
              record |-> [contract EXCEPT !.is_exercised = TRUE],
              transfers |-> 2, failed_leg |-> 0]

\* exercise_option that also sets the amount of the record to 0 on release
exercise_option_amount_cleared(tok, current_timestamp, contract, exerciser, creator_strike_account, exerciser_strike_account, option_underlying_account, exerciser_underlying_account) ==
    LET strike == token_transfer(tok, exerciser_strike_account, creator_strike_account,
                                 exerciser, contract.strike_price)
        underlying == token_transfer(strike.tok, option_underlying_account,
                                     exerciser_underlying_account,
                                     find_program_address(contract.creator),
                                     contract.amount)
    IN  IF contract.is_exercised
        THEN [result |-> "OptionAlreadyExercised", tok |-> tok, record |-> contract,
              transfers |-> 0, failed_leg |-> 0]
        ELSE IF current_timestamp > contract.expiration
        THEN [result |-> "OptionExpired", tok |-> tok, record |-> contract,
              transfers |-> 0, failed_leg |-> 0]
        ELSE IF ~strike.ok
        THEN [result |-> "TokenError", tok |-> tok, record |-> contract,
              transfers |-> 1, failed_leg |-> 1]
        ELSE IF ~underlying.ok
        THEN [result |-> "TokenError", tok |-> strike.tok, record |-> contract,
              transfers |-> 2, failed_leg |-> 2]
        ELSE [result |-> "Ok", tok |-> underlying.tok,
              record |-> [contract EXCEPT !.is_exercised = TRUE, !.amount = 0],
              transfers |-> 2, failed_leg |-> 0]

exercise_option(tok, current_timestamp, contract, exerciser, creator_strike_account, exerciser_strike_account, option_underlying_account, exerciser_underlying_account) ==
    LET strike == token_transfer(tok, exerciser_strike_account, creator_strike_account,
                                 exerciser, contract.strike_price)
        underlying == token_transfer(strike.tok, option_underlying_account,
                                     exerciser_underlying_account,
                                     find_program_address(contract.creator),
                                     contract.amount)
    IN  IF contract.is_exercised
        THEN [result |-> "OptionAlreadyExercised", tok |-> tok, record |-> contract,
              transfers |-> 0, failed_leg |-> 0]
        ELSE IF current_timestamp > contract.expiration
        THEN [result |-> "OptionExpired", tok |-> tok, record |-> contract,
              transfers |-> 0, failed_leg |-> 0]
        ELSE IF ~strike.ok
        THEN [result |-> "TokenError", tok |-> tok, record |-> contract,
              transfers |-> 1, failed_leg |-> 1]
        ELSE IF ~underlying.ok
        THEN [result |-> "TokenError", tok |-> strike.tok, record |-> contract,
              transfers |-> 2, failed_leg |-> 2]
        ELSE [result |-> "Ok", tok |-> underlying.tok,
              record |-> [contract EXCEPT !.is_exercised = TRUE],
              transfers |-> 2, failed_leg |-> 0]

\* ------------------------------------------------------------------------
\* Actions: one per instruction, and the clock
\* ------------------------------------------------------------------------
\* the accounts with a new entry (k, v), or with k's entry replaced
Put(f, k, v) == [x \in DOMAIN f \cup {k} |-> IF x = k THEN v ELSE f[x]]

\* The runtime when the handler of an instruction has returned ret: the
\* account data are kept when it returned Ok and dropped otherwise.
Complete(op, key, signer, expiration, ret) ==
    /\ last' = [op |-> op, key |-> key, signer |-> signer, result |-> ret.result,
                expiration |-> expiration, handler |-> TRUE,
                transfers |-> ret.transfers, failed_leg |-> ret.failed_leg]
    /\ IF ret.result = "Ok"
       THEN /\ option_contract' = Put(option_contract, key, ret.record)
            /\ tokens' = ret.tok
            /\ exercises' = [exercises EXCEPT
                                ![key] = IF op = "exercise_option" THEN @ + 1 ELSE @]
       ELSE UNCHANGED <<option_contract, tokens, exercises>>

\* the create_option instruction with `init_if_needed` in place of `init`
\* on its accounts: an existing record does not stop the handler
CreateOption_init_if_needed(creator, creator_underlying_account, params) ==
    /\ creator_underlying_account.owner = creator
    /\ Complete("create_option", creator, creator, params.expiration,
            create_option(overflow_checks,
                          IF Escrow(creator) \in DOMAIN tokens
                          THEN tokens ELSE Put(tokens, Escrow(creator), 0),
                          clock, creator, creator_underlying_account, params))
    /\ UNCHANGED <<overflow_checks, clock, math_call, sqrt_frame>>

\* The create_option instruction.  The CreateOption accounts are validated
\* first: `init` of the option_contract address derived from the creator
\* fails when that account exists already, and the handler is not entered.
\* `init` of option_underlying_account creates the empty escrow account.
CreateOption(creator, creator_underlying_account, params) ==
    /\ creator_underlying_account.owner = creator
    /\ IF creator \in DOMAIN option_contract
       THEN /\ last' = [op |-> "create_option", key |-> creator, signer |-> creator,
                        result |-> "AccountAlreadyInUse",
                        expiration |-> params.expiration, handler |-> FALSE,
                        transfers |-> 0, failed_leg |-> 0]
            /\ UNCHANGED <<option_contract, tokens, exercises>>
       ELSE Complete("create_option", creator, creator, params.expiration,
                create_option(overflow_checks, Put(tokens, Escrow(creator), 0),
                              clock, creator, creator_underlying_account, params))
    /\ UNCHANGED <<overflow_checks, clock, math_call, sqrt_frame>>

\* The exercise_option instruction, on accounts that pass the ExerciseOption
\* constraints: the option_contract exists at the address derived from its
\* creator field, and the exerciser's two token accounts are owned by the
\* exerciser.  creator_strike_account and option_underlying_account carry
\* no constraint.
ExerciseOption(key, exerciser, creator_strike_account, exerciser_strike_account, option_underlying_account, exerciser_underlying_account) ==
    /\ key \in DOMAIN option_contract
    /\ exerciser_strike_account.owner = exerciser
    /\ exerciser_underlying_account.owner = exerciser
    /\ creator_strike_account \in DOMAIN tokens
    /\ option_underlying_account \in DOMAIN tokens
    /\ Complete("exercise_option", key, exerciser, 0,
            exercise_option(tokens, clock, option_contract[key], exerciser,
                            creator_strike_account, exerciser_strike_account,
                            option_underlying_account, exerciser_underlying_account))
    /\ UNCHANGED <<overflow_checks, clock, math_call, sqrt_frame>>

\* the cluster's clock advances
Tick ==
    /\ clock < MaxYears * SecondsPerYear
    /\ clock' = clock + SecondsPerYear
    /\ last' = [NoInstruction EXCEPT !.op = "tick"]
    /\ UNCHANGED <<overflow_checks, option_contract, tokens, exercises, math_call, sqrt_frame>>

WalletsOf(u) == {a \in Wallets : a.owner = u}

Next ==
    \/ \E creator \in Creators, params \in OptionParams :
          \E a \in WalletsOf(creator) : CreateOption(creator, a, params)
    \/ \E key \in DOMAIN option_contract, exerciser \in Users :
          \E cs \in DOMAIN tokens, ou \in DOMAIN tokens,
             es \in WalletsOf(exerciser), eu \in WalletsOf(exerciser) :
             ExerciseOption(key, exerciser, cs, es, ou, eu)
    \/ Tick

Spec == Init /\ [][Next]_vars

\* ------------------------------------------------------------------------
\* The lifecycle with every user issuing options (one option each, as the
\* record is keyed by the creator), on one choice of the pricing inputs
\* ------------------------------------------------------------------------
IssuerParams ==
    {p \in OptionParams : /\ p.current_price = 1
                          /\ p.risk_free_rate = 50000
                          /\ p.volatility = 200000
                          /\ p.amount = 1}

IssuersInit ==
    /\ overflow_checks \in BOOLEAN
    /\ clock = 0
    /\ option_contract = <<>>
    /\ tokens = [a \in Wallets |-> InitialBalance]
    /\ exercises = [c \in Users |-> 0]
    /\ last = NoInstruction
    /\ math_call = NoCall
    /\ sqrt_frame = NoFrame

IssuersNext ==
    \/ \E creator \in Users, params \in IssuerParams :
          \E a \in WalletsOf(creator) : CreateOption(creator, a, params)
    \/ \E key \in DOMAIN option_contract, exerciser \in Users :
          \E cs \in DOMAIN tokens, ou \in DOMAIN tokens,
             es \in WalletsOf(exerciser), eu \in WalletsOf(exerciser) :
             ExerciseOption(key, exerciser, cs, es, ou, eu)
    \/ Tick

IssuersSpec == IssuersInit /\ [][IssuersNext]_vars

\* ------------------------------------------------------------------------
\* The pricing specification: calls into math.rs on bounded arguments
\* ------------------------------------------------------------------------
MaxSpot == 4

MaxStrikeArg == 2

MaxQuarters == 8

\* fixed-point arguments 0, 0.25, 0.5, ... (below and above 1.0)
FpSamples == {U128(q * 250000) : q \in 0..MaxQuarters}

MaxTimeQuarters == 5

\* times to expiry in seconds: 0, a quarter of a year, ... (below and above
\* one year)
TimeSamples == {q * (SecondsPerYear \div 4) : q \in 0..MaxTimeQuarters}

VolatilitySamples == {0, 200000}

MaxLog16 == 15

\* 16^j as a u128
Pow16(j) == Limbs([i \in 1..Width |-> IF i = (j \div 2) + 1 THEN 16^(j % 2) ELSE 0], Width)

\* arguments of standard_normal_cdf: the fixed-point samples, the powers of
\* 16 up to 16^MaxLog16, and the largest power of 16 a u128 holds
CdfSamples ==
    FpSamples \cup {Pow16(j) : j \in 0..MaxLog16} \cup {Pow16(2 * Width - 1)}

\* result gives what each build returns (TRUE: the build with overflow
\* checks).  The call records what the build at hand returns, and in_range:
\* whether every intermediate result stayed within u128 and no division was
\* by zero, which is exactly when the build with overflow checks does not
\* panic
CallMath(fn, args, result) ==
    /\ math_call = NoCall
    /\ math_call' = [fn |-> fn, args |-> args, result |-> result[overflow_checks],
                     in_range |-> result[TRUE] # Trap]
    /\ UNCHANGED <<overflow_checks, clock, option_contract, tokens, exercises, last, sqrt_frame>>

CallLn(x) == CallMath("ln_fp", <<x>>, [chk \in BOOLEAN |-> ln_fp(chk, x)])

CallExp(x) == CallMath("exp_fp", <<x>>, [chk \in BOOLEAN |-> exp_fp(chk, x)])

CallSqrt(x) == CallMath("sqrt_fp", <<x>>, [chk \in BOOLEAN |-> sqrt_fp(chk, x)])

CallCdf(x) ==
    CallMath("standard_normal_cdf", <<x>>, [chk \in BOOLEAN |-> standard_normal_cdf(chk, x)])

CallBlackScholes(s, k, t, r, sigma) ==
    CallMath("black_scholes_approx", <<s, k, t, r, sigma>>,
        [chk \in BOOLEAN |->
            black_scholes_approx(chk, U128(s), U128(k), U128(t), U128(r), U128(sigma))])

Return ==
    /\ math_call # NoCall
    /\ math_call' = NoCall
    /\ UNCHANGED <<overflow_checks, clock, option_contract, tokens, exercises, last, sqrt_frame>>

MathNext ==
    \/ \E x \in FpSamples : CallLn(x)
    \/ \E x \in FpSamples : CallExp(x)
    \/ \E x \in FpSamples : CallSqrt(x)
    \/ \E x \in CdfSamples : CallCdf(x)
    \/ \E s \in 0..MaxSpot, k \in 1..MaxStrikeArg, t \in TimeSamples,
          r \in Rates, sigma \in VolatilitySamples :
          CallBlackScholes(s, k, t, r, sigma)
    \/ Return

MathSpec == Init /\ [][MathNext]_vars

\* ------------------------------------------------------------------------
\* The square-root specification: sqrt_fp executed one loop test at a time
\* ------------------------------------------------------------------------
\* arguments of sqrt_fp: the fixed-point samples, and the powers of 16 up to
\* 16^MaxLog16 (beyond the t_fp of every u64 time to expiry)
SqrtSamples == FpSamples \cup {Pow16(j) : j \in 0..MaxLog16}

Frame(pc, x_fp, z, y, result) ==
    [pc |-> pc, x_fp |-> x_fp, z |-> z, y |-> y, result |-> result]

\* lines 86-90: the call, up to the first test of the loop
SqrtEnter(x_fp) ==
    /\ sqrt_frame.pc = "idle"
    /\ sqrt_frame' =
          IF x_fp = Zero THEN Frame("done", x_fp, Zero, Zero, Zero)
          ELSE IF sqrt_start(overflow_checks, x_fp) = Trap
          THEN Frame("panic", x_fp, x_fp, Trap, Trap)
          ELSE Frame("while", x_fp, x_fp, sqrt_start(overflow_checks, x_fp), Zero)
    /\ UNCHANGED <<overflow_checks, clock, option_contract, tokens, exercises, last,
                   math_call>>

\* lines 91-94: the test y < z holds and the body runs
SqrtIterate ==
    /\ sqrt_frame.pc = "while"
    /\ Less(sqrt_frame.y, sqrt_frame.z, Width)
    /\ sqrt_frame' =
          IF sqrt_iterate(overflow_checks, sqrt_frame.x_fp, sqrt_frame.y) = Trap
          THEN Frame("panic", sqrt_frame.x_fp, sqrt_frame.y, Trap, Trap)
          ELSE Frame("while", sqrt_frame.x_fp, sqrt_frame.y,
                     sqrt_iterate(overflow_checks, sqrt_frame.x_fp, sqrt_frame.y), Zero)
    /\ UNCHANGED <<overflow_checks, clock, option_contract, tokens, exercises, last,
                   math_call>>

\* lines 91 and 95: the test y < z fails and z is returned
SqrtExit ==
    /\ sqrt_frame.pc = "while"
    /\ ~Less(sqrt_frame.y, sqrt_frame.z, Width)
    /\ sqrt_frame' = [sqrt_frame EXCEPT !.pc = "done", !.result = sqrt_frame.z]
    /\ UNCHANGED <<overflow_checks, clock, option_contract, tokens, exercises, last,
                   math_call>>

\* the caller takes the result (or the transaction has aborted)
SqrtReturn ==
    /\ sqrt_frame.pc \in {"done", "panic"}
    /\ sqrt_frame' = NoFrame
    /\ UNCHANGED <<overflow_checks, clock, option_contract, tokens, exercises, last,
                   math_call>>

SqrtNext ==
    \/ \E x_fp \in SqrtSamples : SqrtEnter(x_fp)
    \/ SqrtIterate
    \/ SqrtExit
    \/ SqrtReturn

\* the body of the loop can run: ENABLED <<SqrtIterate>>_vars
IterateEnabled ==
    sqrt_frame.pc = "while" /\ Less(sqrt_frame.y, sqrt_frame.z, Width)

\* weak fairness of SqrtIterate, WF_vars(SqrtIterate), with its ENABLED
\* written as the state predicate IterateEnabled
IterateFairness == []<>(~IterateEnabled) \/ []<><<SqrtIterate>>_vars

\* a call that has started keeps running: the loop is sequential code, so
\* both of its steps are weakly fair
SqrtSpec == Init /\ [][SqrtNext]_vars /\ WF_vars(SqrtExit) /\ IterateFairness

\* ------------------------------------------------------------------------
\* Properties of the lifecycle (specification Spec)
\* ------------------------------------------------------------------------
Wallet(u, m) == TokenAccount(u, m)

\* the balances tok after n tokens have moved from one account to another
Moved(tok, from, to, n) == [[tok EXCEPT ![from] = @ - n] EXCEPT ![to] = @ + n]

\* C1: is_exercised never goes back from true to false (the record is never
\* removed or re-created either), and at most one exercise_option call per
\* contract returns Ok.
C1_MonotonicExercise ==
    /\ [](\A c \in Creators : exercises[c] <= 1)
    /\ [][\A c \in DOMAIN option_contract :
            option_contract[c].is_exercised =>
                c \in DOMAIN option_contract' /\ option_contract'[c].is_exercised]_vars

\* a contract was exercised once, and a later exercise_option on it was refused
C1_Witness ==
    \E c \in DOMAIN option_contract :
        /\ exercises[c] = 1
        /\ option_contract[c].is_exercised
        /\ last.op = "exercise_option" /\ last.key = c /\ last.result # "Ok"

\* C2 as stated: exercise_option at a clock time strictly greater than the
\* expiration fails with OptionExpired, whatever is_exercised is.
C2_ExpiredAlwaysOptionExpired ==
    (last.op = "exercise_option" /\ clock > option_contract[last.key].expiration)
        => last.result = "OptionExpired"

\* C2 as amended: exercise_option at a clock time strictly greater than the
\* expiration always fails: with OptionExpired when is_exercised is false, and
\* with OptionAlreadyExercised when is_exercised is true.
C2_ExpirationGate ==
    (last.op = "exercise_option" /\ clock > option_contract[last.key].expiration)
        => last.result = (IF option_contract[last.key].is_exercised
                          THEN "OptionAlreadyExercised" ELSE "OptionExpired")

\* an unexercised contract was refused past its expiration
C2_Witness ==
    /\ last.op = "exercise_option"
    /\ clock > option_contract[last.key].expiration
    /\ last.result = "OptionExpired"

\* C3: when one of the two transfers of exercise_option fails, the
\* instruction leaves every token balance and the contract record as they
\* were, with is_exercised false.
C3_ExerciseAtomicity ==
    [][(last'.op = "exercise_option" /\ last'.failed_leg # 0) =>
            /\ tokens' = tokens
            /\ option_contract' = option_contract
            /\ ~option_contract'[last'.key].is_exercised]_vars

\* the underlying release failed after the strike transfer had succeeded
C3_Witness == last.op = "exercise_option" /\ last.failed_leg = 2

\* C4: a successful exercise_option moves strike_price of the strike asset
\* from the exerciser to the creator recorded in the contract and amount of
\* the underlying from the contract's escrow to the exerciser, and sets
\* is_exercised.
C4_ExerciseEffect ==
    [][(last'.op = "exercise_option" /\ last'.result = "Ok") =>
            LET c == last'.key
                e == last'.signer
                oc == option_contract[c]
            IN  /\ option_contract'[c].is_exercised
                /\ tokens' = Moved(Moved(tokens, Wallet(e, "STK"),
                                         Wallet(oc.creator, "STK"), oc.strike_price),
                                   Escrow(c), Wallet(e, "UND"), oc.amount)]_vars

\* C5: the escrow of every contract record holds exactly amount while
\* is_exercised is false and 0 once it is true.
C5_EscrowConservation ==
    \A c \in DOMAIN option_contract :
        /\ Escrow(c) \in DOMAIN tokens
        /\ tokens[Escrow(c)] =
              (IF option_contract[c].is_exercised THEN 0 ELSE option_contract[c].amount)

\* C6: exercise_option returns Ok only from a state with is_exercised false
\* and clock <= expiration; and at clock = expiration, on an unexercised
\* contract and with no transfer failing, it returns Ok and sets is_exercised.
C6_ExerciseWindow ==
    [][last'.op = "exercise_option" =>
            LET oc == option_contract[last'.key]
            IN  /\ last'.result = "Ok" => (~oc.is_exercised /\ clock <= oc.expiration)
                /\ (~oc.is_exercised /\ clock = oc.expiration /\ last'.failed_leg = 0)
                      => /\ last'.result = "Ok"
                         /\ option_contract'[last'.key].is_exercised]_vars

\* an exercise at exactly the expiration was accepted
C6_Witness ==
    /\ last.op = "exercise_option" /\ last.result = "Ok"
    /\ clock = option_contract[last.key].expiration
    /\ option_contract[last.key].is_exercised

\* C7: exercise_option on a contract with is_exercised true fails with
\* OptionAlreadyExercised, requests no transfer, and changes neither the
\* contract records nor any balance.
C7_AlreadyExercised ==
    [][(last'.op = "exercise_option" /\ option_contract[last'.key].is_exercised) =>
            /\ last'.result = "OptionAlreadyExercised"
            /\ last'.transfers = 0
            /\ option_contract' = option_contract
            /\ tokens' = tokens]_vars

\* an exercise was refused with OptionAlreadyExercised
C7_Witness == last.op = "exercise_option" /\ last.result = "OptionAlreadyExercised"

\* C8: whenever the create_option handler runs with params.expiration <= the
\* clock it fails with InvalidExpiration, creating no record and moving no
\* token; with params.expiration > the clock it does not fail with
\* InvalidExpiration.
C8_InvalidExpiration ==
    [][(last'.op = "create_option" /\ last'.handler) =>
            /\ last'.expiration <= clock =>
                  /\ last'.result = "InvalidExpiration"
                  /\ option_contract' = option_contract
                  /\ tokens' = tokens
            /\ last'.expiration > clock => last'.result # "InvalidExpiration"]_vars

\* a create_option with expiration equal to the clock was refused
C8_Witness ==
    /\ last.op = "create_option" /\ last.result = "InvalidExpiration"
    /\ last.expiration = clock
    /\ clock > 0

\* ------------------------------------------------------------------------
\* Properties of the pricing library (specification MathSpec)
\* ------------------------------------------------------------------------
\* C9: black_scholes_approx with strike > 0 and sigma = 0 or t = 0 returns
\* exactly 0, without a panic before the guard.
C9_ZeroDenominatorGuard ==
    (/\ math_call.fn = "black_scholes_approx"
     /\ (math_call.args[5] = 0 \/ math_call.args[3] = 0))
        => math_call.result = Zero

\* C10: every call of ln_fp, exp_fp, sqrt_fp, standard_normal_cdf and
\* black_scholes_approx on the bounded valid arguments completes with every
\* intermediate result within u128 (no panic, no wrap-around).
C10_NoPanicNoWrap ==
    math_call.fn # "none" => (math_call.in_range /\ math_call.result # Trap)

\* ------------------------------------------------------------------------
\* Properties of create_option's pricing (specification Spec)
\* ------------------------------------------------------------------------
\* the pricing of params at the time now reaches line 35 with d1 < sigma_sqrt_t
D2Underflows(params, now) ==
    LET l == black_scholes_locals(TRUE, U128(params.current_price),
                 U128(params.strike_price), U128(params.expiration - now),
                 U128(params.risk_free_rate), U128(params.volatility))
    IN  l.d1 # Trap /\ ~l.guard /\ Less(l.d1, l.sigma_sqrt_t, Width)

\* C11: when the subtraction d2 = d1 - sigma_sqrt_t would underflow, the
\* create_option handler returns the error ArithmeticFault (it neither
\* panics nor goes on with a wrapped d2), no record is created and no token
\* moves.
C11_ArithmeticFaultReported ==
    [][\A creator \in Creators, params \in OptionParams :
         \A a \in WalletsOf(creator) :
            (/\ creator \notin DOMAIN option_contract
             /\ params.expiration > clock
             /\ CreateOption(creator, a, params)
             /\ D2Underflows(params, clock))
                => /\ last'.result = "ArithmeticFault"
                   /\ option_contract' = option_contract
                   /\ tokens' = tokens]_vars

\* ------------------------------------------------------------------------
\* Properties of black_scholes_approx's local variables (specification
\* MathSpec)
\* ------------------------------------------------------------------------
\* the local variables of the black_scholes_approx call at hand, in the build
\* at hand
CallLocals ==
    black_scholes_locals(overflow_checks, U128(math_call.args[1]),
        U128(math_call.args[2]), U128(math_call.args[3]),
        U128(math_call.args[4]), U128(math_call.args[5]))

\* the call at hand is a black_scholes_approx that got past the guard of
\* line 30 and through lines 34-39 without a panic
PastCdf(l) == ~l.guard /\ l.numerator # Trap /\ l.nd1 # Trap /\ l.nd2 # Trap

\* C12: in every black_scholes_approx call that reaches line 44, the discount
\* factor e_minus_rt is at most SCALE, and it is exactly SCALE when r_t is 0.
C12_DiscountFactor ==
    math_call.fn = "black_scholes_approx" =>
        (PastCdf(CallLocals) =>
            /\ CallLocals.e_minus_rt # Trap
            /\ ~Less(SCALE, CallLocals.e_minus_rt, Width)
            /\ CallLocals.r_t = Zero => CallLocals.e_minus_rt = SCALE)

\* ------------------------------------------------------------------------
\* Properties of sqrt_fp (specifications MathSpec and SqrtSpec)
\* ------------------------------------------------------------------------
\* |a - b| for u128 values in range
Distance(a, b) == IF Less(a, b, Width) THEN SubLimbs(b, a, Width) ELSE SubLimbs(a, b, Width)

\* y * y / SCALE is within 1% of x_fp, one unit allowed for the truncations
SquareWithinOnePercent(x_fp, y) ==
    ~Less(u128_add(TRUE, u128_div(x_fp, U128(100)), U128(1)),
          Distance(u128_div(u128_mul(TRUE, y, y), SCALE), x_fp), Width)

\* C13: sqrt_fp(0) = 0, and for every argument, also below SCALE, the result
\* y has y * y / SCALE within 1% of the argument.
C13_SqrtAccuracy ==
    math_call.fn = "sqrt_fp" =>
        /\ math_call.result # Trap
        /\ math_call.args[1] = Zero => math_call.result = Zero
        /\ SquareWithinOnePercent(math_call.args[1], math_call.result)

\* C14: every sqrt_fp call that enters the loop leaves it and returns; each
\* run of the body is taken only when y < z, and gives z the value of y, which
\* is strictly less than z was; the divisor y of the body is never zero, and
\* the call does not panic.
C14_SqrtTermination ==
    /\ (sqrt_frame.pc = "while") ~> (sqrt_frame.pc = "done")
    /\ [][(sqrt_frame.pc = "while" /\ sqrt_frame'.pc = "while") =>
            /\ sqrt_frame'.z = sqrt_frame.y
            /\ Less(sqrt_frame'.z, sqrt_frame.z, Width)]_vars
    /\ [](sqrt_frame.pc = "while" => sqrt_frame.y # Zero)
    /\ [](sqrt_frame.pc # "panic")

\* a call returned after its loop had run, with the value of sqrt_fp
C14_Witness ==
    /\ sqrt_frame.pc = "done"
    /\ Less(sqrt_frame.result, sqrt_frame.x_fp, Width)
    /\ sqrt_frame.result = sqrt_fp(overflow_checks, sqrt_frame.x_fp)

\* ------------------------------------------------------------------------
\* Properties of standard_normal_cdf (specification MathSpec)
\* ------------------------------------------------------------------------
\* the exact product a * b, on 2 * Width bytes
Product(a, b) == Mul(a, b, 2 * Width)

\* q is the integer quotient of the exact product p by SQRT_2_PI
IsLinearTerm(q, p) ==
    /\ ~Less(p, Product(q, SQRT_2_PI), 2 * Width)
    /\ Less(p, Product(AddLimbs(q, U128(1), Width), SQRT_2_PI), 2 * Width)

\* the linear value SCALE/2 + d_fp * SCALE / SQRT_2_PI exceeds SCALE: the
\* quotient is at least SCALE/2 + 1
LinearExceedsScale(d_fp) ==
    ~Less(Product(d_fp, SCALE), Product(U128(500001), SQRT_2_PI), 2 * Width)

Terms(record) == [record EXCEPT !.is_exercised = FALSE]

\* C16: no exercise_option call changes the creator, underlying_asset_mint,
\* strike_price, expiration, option_price, amount or bump of any record; a
\* call that returns Ok changes only is_exercised of its contract, to true,
\* and a call that fails changes no field of any record.
C16_ImmutableTerms ==
    [][last'.op = "exercise_option" =>
            /\ DOMAIN option_contract' = DOMAIN option_contract
            /\ \A c \in DOMAIN option_contract :
                  /\ Terms(option_contract'[c]) = Terms(option_contract[c])
                  /\ (c # last'.key \/ last'.result # "Ok")
                        => option_contract'[c] = option_contract[c]
            /\ last'.result = "Ok" => option_contract'[last'.key].is_exercised]_vars

\* an exercise returned Ok on a contract for the largest amount, which the
\* record still shows
C16_Witness ==
    /\ last.op = "exercise_option" /\ last.result = "Ok"
    /\ option_contract[last.key].is_exercised
    /\ option_contract[last.key].amount = MaxAmount
    /\ tokens[Escrow(last.key)] = 0

\* C17: every record is stored under the key of its creator, so that there is
\* at most one per creator; and a create_option by a creator who has a record
\* (active, exercised or expired) does not return Ok, and leaves every record
\* and every balance as they were.
C17_OneRecordPerCreator ==
    /\ [](\A c \in Users :
            Cardinality({k \in DOMAIN option_contract : option_contract[k].creator = c}) <= 1)
    /\ [][(last'.op = "create_option" /\ last'.key \in DOMAIN option_contract) =>
            /\ last'.result # "Ok"
            /\ option_contract' = option_contract
            /\ tokens' = tokens]_vars

\* the creator of an exercised contract tried to create another option, in
\* vain
C17_Witness ==
    /\ last.op = "create_option" /\ last.result = "AccountAlreadyInUse"
    /\ last.expiration > clock
    /\ option_contract[last.key].is_exercised
    /\ Cardinality(DOMAIN option_contract) = 1

\* ------------------------------------------------------------------------
\* Properties of the escrow of an expired contract (specification
\* IssuersSpec)
\* ------------------------------------------------------------------------
\* C18: from the time the clock has passed the expiration of a contract with
\* is_exercised false, no instruction changes the balance of its escrow or
\* its is_exercised, and its record stays.
C18_ExpiredEscrowLocked ==
    [][\A c \in DOMAIN option_contract :
            (clock > option_contract[c].expiration /\ ~option_contract[c].is_exercised)
                => /\ c \in DOMAIN option_contract'
                   /\ ~option_contract'[c].is_exercised
                   /\ tokens'[Escrow(c)] = tokens[Escrow(c)]]_vars

\* ------------------------------------------------------------------------
\* Properties of the premium and of N(d1), N(d2) (specification MathSpec)
\* ------------------------------------------------------------------------
\* the premium of a call past the guard is c_fp / SCALE as computed, within
\* u64, and c_fp is at most s_fp
NotNarrowed(l, premium) ==
    l.guard \/ (l.quotient = premium /\ ~Less(l.s_fp, l.c_fp, Width))

\* C19: every black_scholes_approx call that completes (in either build)
\* returns a premium p with 0 <= p <= s, and the narrowing of c_fp / SCALE to
\* u64 drops nothing.
C19_PremiumBoundedBySpot ==
    (math_call.fn = "black_scholes_approx" /\ math_call.result # Trap) =>
        /\ ~Less(U128(math_call.args[1]), math_call.result, Width)
        /\ NotNarrowed(CallLocals, math_call.result)

\* a call returned a premium above 0
C19_Witness ==
    /\ math_call.fn = "black_scholes_approx"
    /\ math_call.result # Trap
    /\ Less(Zero, math_call.result, Width)
    /\ ~Less(U128(math_call.args[1]), math_call.result, Width)

\* x is Trap (the call did not happen or panicked) or within [SCALE/2, SCALE]
UpperHalf(x) ==
    x = Trap \/ (~Less(x, U128(500000), Width) /\ ~Less(SCALE, x, Width))

\* N(d1) and N(d2) of the call with the locals l
BothUpperHalf(l) == UpperHalf(l.nd1) /\ UpperHalf(l.nd2)

\* C20: standard_normal_cdf never returns less than SCALE/2 (so never the 0
\* of its lower clamp), and in every black_scholes_approx call N(d1) and
\* N(d2) are within [SCALE/2, SCALE].
C20_CdfAtLeastHalf ==
    /\ math_call.fn = "standard_normal_cdf" => UpperHalf(math_call.result)
    /\ math_call.fn = "black_scholes_approx" => BothUpperHalf(CallLocals)

\* a call of black_scholes_approx in which N(d2) is strictly between SCALE/2
\* and SCALE
C20_Witness ==
    /\ math_call.fn = "black_scholes_approx"
    /\ math_call.in_range
    /\ CallLocals.nd2 # Trap
    /\ Less(U128(500000), CallLocals.nd2, Width)
    /\ Less(CallLocals.nd2, SCALE, Width)

====
